---- MODULE Spec2Model ----
(***************************************************************************)
(* Model of agent/plugins/update.go of satori: the plugin updater          *)
(* (UpdatePlugin and its helpers) and the commit signature verifier.       *)
(*                                                                         *)
(* Strings are sequences of one-character strings, so that the parsing     *)
(* done by the code (HasPrefix, TrimSpace, Split, Fields) is computed and  *)
(* not assumed.                                                            *)
(***************************************************************************)
EXTENDS Integers, Sequences, FiniteSets, TLC

(***************************************************************************)
(* Bounds of the model.                                                    *)
(***************************************************************************)
\* longest commit object, in lines, given to verifySignature on its own
MaxLines == 3
\* how many times the clock advances
MaxTicks == 3
\* seconds by which the clock advances at a time
TickSeconds == 150
\* the Unix time at which the agent starts
StartTime == 1000

(***************************************************************************)
(* Program constants.                                                      *)
(***************************************************************************)
\* update.go:95, the cooldown in seconds
Cooldown == 300
\* update.go:250, var vk [32]byte
KeySize == 32
\* update.go:257, var s [64]byte
SignatureSize == 64

(***************************************************************************)
(* package strings                                                         *)
(***************************************************************************)
NL == "\n"

IsSpace(c) == c \in {" ", "\t", "\r", NL}

HasPrefix(s, p) == Len(p) <= Len(s) /\ SubSeq(s, 1, Len(p)) = p

\* s[n:]
Drop(s, n) == SubSeq(s, n + 1, Len(s))

RECURSIVE TrimLeft(_)
TrimLeft(s) ==
    IF s # <<>> /\ IsSpace(Head(s)) THEN TrimLeft(Tail(s)) ELSE s

RECURSIVE TrimRight(_)
TrimRight(s) ==
    IF s # <<>> /\ IsSpace(s[Len(s)])
    THEN TrimRight(SubSeq(s, 1, Len(s) - 1))
    ELSE s

TrimSpace(s) == TrimRight(TrimLeft(s))

\* index of the first occurrence of the character c in s, 0 when absent
IndexOf(s, c) ==
    IF \E i \in 1..Len(s) : s[i] = c
    THEN CHOOSE i \in 1..Len(s) : s[i] = c /\ \A j \in 1..(i - 1) : s[j] # c
    ELSE 0

\* strings.Split for a one-character separator: never empty, Split("") = [""]
RECURSIVE Split(_, _)
Split(s, sep) ==
    LET i == IndexOf(s, sep)
    IN  IF i = 0 THEN <<s>>
        ELSE <<SubSeq(s, 1, i - 1)>> \o Split(Drop(s, i), sep)

\* strings.Fields: the maximal runs of non-space characters
RECURSIVE Fields(_)
Fields(s) ==
    LET t == TrimLeft(s)
        n == IF \E i \in 1..Len(t) : IsSpace(t[i])
             THEN (CHOOSE i \in 1..Len(t) :
                      IsSpace(t[i]) /\ \A j \in 1..(i - 1) : ~IsSpace(t[j])) - 1
             ELSE Len(t)
    IN  IF t = <<>> THEN <<>>
        ELSE <<SubSeq(t, 1, n)>> \o Fields(Drop(t, n))

RECURSIVE Join(_, _)
Join(ls, sep) ==
    IF ls = <<>> THEN <<>>
    ELSE IF Len(ls) = 1 THEN ls[1]
    ELSE ls[1] \o <<sep>> \o Join(Tail(ls), sep)

(***************************************************************************)
(* The texts of the model: markers, tree hashes, keys, signatures.         *)
(***************************************************************************)
TreeMarker == <<"t", "r", "e", "e", " ">>
SignMarker == <<"s", "a", "t", "o", "r", "i", "-", "s", "i", "g", "n", " ">>

\* two tree hashes
H1 == <<"h", "1">>
H2 == <<"h", "2">>

\* base64 texts of three public keys; KA and KB share the prefix "K"
KA == <<"K", "A">>
KB == <<"K", "B">>
QC == <<"Q", "C">>
AllKeys == {KA, KB, QC}

\* a configured key entry: the base64 key, a space, a name
Entry(k) == k \o <<" ", "n">>

\* characters base64.StdEncoding accepts; one character stands for one
\* group of the encoding
Base64Alphabet ==
    {"K", "Q", "A", "B", "C", "S", "X", "h", "1", "2"}

\* the signature text the holder of k's private key produces over msg
Sign(k, msg) == <<"S">> \o k \o msg
\* the same with one bit flipped
Flipped(k, msg) == <<"X">> \o k \o msg

(***************************************************************************)
(* encoding/base64 and ed25519, as used at update.go:249-265               *)
(***************************************************************************)
DecodeError == <<"!">>

\* base64.StdEncoding.DecodeString: DecodeError on an illegal character
DecodeString(s) ==
    IF \A i \in 1..Len(s) : s[i] \in Base64Alphabet THEN s ELSE DecodeError

\* copy(dst[:], src) into a zeroed array of n bytes
CopyFixed(src, n) ==
    [i \in 1..n |-> IF i <= Len(src) THEN src[i] ELSE "0"]

\* ed25519.Verify accepting a signature of any message under vk
Ed25519Verify_AnyMessage(vk, msg, s) ==
    \E k \in AllKeys, m \in {H1, H2} :
        /\ vk = CopyFixed(k, KeySize)
        /\ s = CopyFixed(Sign(k, m), SignatureSize)

\* ed25519.Verify(&vk, msg, &s): s is the signature of msg under vk
Ed25519Verify(vk, msg, s) ==
    \E k \in AllKeys :
        /\ vk = CopyFixed(k, KeySize)
        /\ s = CopyFixed(Sign(k, msg), SignatureSize)

(***************************************************************************)
(* verifySignature, update.go:206-268, on the text of the commit object.   *)
(***************************************************************************)
\* stands for the key when strings.Fields(k)[0] is out of range
PanicKey == <<"!", "!">>

\* the search for the key, update.go:231-236
RECURSIVE MatchKey(_, _, _)
\* the search without the break of update.go:234: the last match stays
MatchKey_LastMatch(validKeys, keyid, key) ==
    LET m == {i \in 1..Len(validKeys) : HasPrefix(validKeys[i], keyid)}
        last == CHOOSE i \in m : \A j \in m : j <= i
    IN  IF m = {} THEN key
        ELSE IF Fields(validKeys[last]) = <<>> THEN PanicKey
        ELSE Fields(validKeys[last])[1]

MatchKey(validKeys, keyid, key) ==
    IF validKeys = <<>> THEN key
    ELSE IF HasPrefix(Head(validKeys), keyid)
         THEN IF Fields(Head(validKeys)) = <<>> THEN PanicKey
              ELSE Fields(Head(validKeys))[1]
         ELSE MatchKey(Tail(validKeys), keyid, key)

\* one iteration of the loop over the lines, update.go:222-240
ScanLine(st, l, validKeys) ==
    IF st.panic THEN st
    ELSE IF HasPrefix(l, TreeMarker)
    THEN [st EXCEPT !.tree = TrimSpace(Drop(l, Len(TreeMarker)))]
    ELSE IF HasPrefix(l, SignMarker)
    THEN LET s == TrimSpace(Drop(l, Len(SignMarker)))
             a == Split(s, ":")
             k == MatchKey(validKeys, a[1], st.key)
         IN  IF k = PanicKey \/ Len(a) < 2
             THEN [st EXCEPT !.panic = TRUE]
             ELSE [st EXCEPT !.key = k, !.sign = a[2]]
    ELSE st

RECURSIVE ScanLines(_, _, _)
ScanLines(st, ls, validKeys) ==
    IF ls = <<>> THEN st
    ELSE ScanLines(ScanLine(st, Head(ls), validKeys), Tail(ls), validKeys)

\* tree, key and sign after the loop
Scan(content, validKeys) ==
    ScanLines([tree |-> <<>>, key |-> <<>>, sign |-> <<>>, panic |-> FALSE],
              Split(content, NL), validKeys)

\* the outcome of update.go:219-267 on the text of the commit object
verifyContent(content, validKeys) ==
    LET st == Scan(content, validKeys)
        vkslice == DecodeString(st.key)
        signslice == DecodeString(st.sign)
    IN  IF st.panic THEN "PANIC"
        ELSE IF st.tree = <<>> THEN "Can't find tree hash"
        ELSE IF st.sign = <<>> THEN "Signature not found"
        ELSE IF st.key = <<>> THEN "Signing key untrusted"
        ELSE IF vkslice = DecodeError THEN "illegal base64 data"
        ELSE IF signslice = DecodeError THEN "illegal base64 data"
        ELSE IF ~Ed25519Verify(CopyFixed(vkslice, KeySize), st.tree,
                               CopyFixed(signslice, SignatureSize))
        THEN "Signature invalid"
        ELSE "nil"

(***************************************************************************)
(* The remote repository: a linear history of commits.  A commit has the   *)
(* text of its commit object (what git cat-file -p prints) and the text of *)
(* the alternate keys file in its tree (NoFile when the tree has none).    *)
(***************************************************************************)
NoFile == <<"\f">>

TreeLine(h) == TreeMarker \o h
SignLine(keyid, sig) == SignMarker \o keyid \o <<":">> \o sig
AuthorLine == <<"a", "u", "t", "h", "o", "r", " ", "x">>

\* a commit object with tree h signed by the private key of k, the key
\* named in the signature line by keyid
Signed(h, keyid, k) ==
    Join(<<TreeLine(h), AuthorLine, <<>>, SignLine(keyid, Sign(k, h))>>, NL)

\* a commit object whose signature line has no colon
NoColon(h) ==
    Join(<<TreeLine(h), AuthorLine, <<>>, SignMarker \o KA>>, NL)

CommentLine == <<"#", " ", "a", "l", "t">>

\* keys files: a comment, a blank line and the listed key entries
KeysQC == Join(<<CommentLine, Entry(QC), <<>>, <<>>>>, NL)
KeysQCKB == Join(<<CommentLine, <<" ">> \o Entry(QC), Entry(KB), <<>>>>, NL)

Commit(m, f) == [meta |-> m, keysFile |-> f]

\* the keys file comes with a commit signed by the primary key KA; the next
\* commit is signed by the alternate key QC, the third by KA under the key
\* id "K", which is a prefix of the alternate key KB as well
HistA ==
    << Commit(Signed(H1, KA, KA), KeysQCKB),
       Commit(Signed(H2, QC, QC), KeysQCKB),
       Commit(Signed(H1, <<"K">>, KA), KeysQCKB) >>

\* the keys file is changed by a commit signed by the alternate key QC
HistB ==
    << Commit(Signed(H1, KA, KA), KeysQC),
       Commit(Signed(H2, QC, QC), KeysQCKB),
       Commit(Signed(H1, KA, KA), KeysQCKB) >>

\* the keys file is changed by a commit whose signature line has no colon;
\* the third commit is not signed
HistC ==
    << Commit(Signed(H1, KA, KA), KeysQC),
       Commit(NoColon(H2), KeysQCKB),
       Commit(Join(<<TreeLine(H2), AuthorLine>>, NL), KeysQCKB) >>

\* a commit signed by the primary key takes KB out of the keys file; the
\* commit after it is signed by KB
HistD ==
    << Commit(Signed(H1, KA, KA), KeysQCKB),
       Commit(Signed(H2, KA, KA), KeysQC),
       Commit(Signed(H1, KB, KB), KeysQC) >>

Histories == {HistA, HistB, HistC, HistD}

CommitIds == <<"c1", "c2", "c3">>

(***************************************************************************)
(* g.Config(): the fields update.go reads.                                 *)
(***************************************************************************)
Config(en, sk, alt) ==
    [Enabled |-> en, SigningKeys |-> sk, AltSigningKeysFile |-> alt]

Configs ==
    { Config(TRUE, <<Entry(KA)>>, "keys"),
      Config(TRUE, <<Entry(KA)>>, ""),
      Config(TRUE, <<>>, ""),
      Config(FALSE, <<Entry(KA)>>, "keys") }

\* the contexts UpdatePlugin is called from
Callers == {"timer", "manual"}

\* the ver arguments the callers pass
Targets == {""}

VARIABLES
    cfg,              \* g.Config().Plugin, read-only
    history,          \* the commits of the remote repository
    remoteHead,       \* the remote's master: index into history
    now,              \* time.Now().Unix()
    parentDirExists,  \* path.Dir(cfg.CheckoutPath) exists
    repoExists,       \* cfg.CheckoutPath exists
    originMaster,     \* the local ref origin/master: index, 0 when unset
    HEAD,             \* the commit the working tree is at, 0 when none
    updateInflight,   \* update.go:72
    lastPluginUpdate, \* update.go:73
    pc,               \* where each caller is inside UpdatePlugin
    ver,              \* UpdatePlugin's parameter ver
    keys,             \* UpdatePlugin's local keys
    err,              \* the error updateByFetch is returning
    result,           \* what the caller's last UpdatePlugin returned
    reports,          \* subjects of the reportFailure calls of the attempt
    verified,         \* the commit verifySignature accepted in the attempt
    content,          \* a commit object text given to verifySignature
    validKeys,        \* the key list given with it
    verdict,          \* what verifySignature returned for them
    lastPassed,       \* when a call last got past update.go:95, 0 if never
    selfUpdate,       \* g.Config().SelfUpdate
    running,          \* the binary the process is executing
    selfFile,         \* the file at selfPath
    newFile,          \* the file at newPath, in the plugin checkout
    backups,          \* the files at selfPath + "." + digest, by digest
    suPc,             \* where TrySelfUpdate is
    selfHash,         \* TrySelfUpdate's local selfHash
    newHash,          \* TrySelfUpdate's local newHash
    suResult,         \* what the last TrySelfUpdate returned
    renames,          \* renames done by the TrySelfUpdate in progress
    copies,           \* copies completed by it
    execs             \* syscall.Exec calls made by it

fsVars == <<parentDirExists, repoExists, originMaster, HEAD>>
guardVars == <<updateInflight, lastPluginUpdate>>
envVars == <<cfg, history, remoteHead, now>>
callVars == <<pc, ver, keys, err, result, reports, verified>>
pureVars == <<content, validKeys, verdict>>
auditVars == <<lastPassed>>
binVars == <<running, selfFile, newFile, backups>>
suVars == <<selfUpdate, binVars, suPc, selfHash, newHash, suResult, renames,
            copies, execs>>
updVars == <<envVars, fsVars, guardVars, callVars, auditVars>>
vars == <<updVars, pureVars, suVars>>

(***************************************************************************)
(* The git commands update.go runs in the working copy.                    *)
(***************************************************************************)
\* the commit a revision names in the local repository, 0 when it names none
RevParse(rev) ==
    IF ~repoExists THEN 0
    ELSE IF rev = "origin/master" THEN originMaster
    ELSE IF \E i \in 1..originMaster : CommitIds[i] = rev
         THEN CHOOSE i \in 1..originMaster : CommitIds[i] = rev
         ELSE 0

\* the keys file in the tree of commit i; commit 0 is the empty history
KeysFileAt(i) == IF i = 0 THEN NoFile ELSE history[i].keysFile

\* git rev-list -1 head keyFile: the last commit at or before head that
\* changed the file, "" when there is none, "fatal" when head names nothing
RevList(head) ==
    LET h == RevParse(head)
        changed == {i \in 1..h : KeysFileAt(i) # KeysFileAt(i - 1)}
    IN  IF h = 0 THEN "fatal"
        ELSE IF changed = {} THEN ""
        ELSE CommitIds[CHOOSE i \in changed : \A j \in changed : j <= i]

\* the alternate keys file as it stands in the working tree
WorkTreeKeysFile == IF repoExists THEN KeysFileAt(HEAD) ELSE NoFile

\* verifySignature, update.go:206-268
verifySignature(head, vkeys) ==
    IF RevParse(head) = 0 THEN "Can't get content of desired commit"
    ELSE verifyContent(history[RevParse(head)].meta, vkeys)

\* the lines kept by update.go:296-303
RECURSIVE KeyLines(_)
KeyLines(ls) ==
    IF ls = <<>> THEN <<>>
    ELSE LET l == TrimSpace(Head(ls))
         IN  IF HasPrefix(l, <<"#">>) \/ l = <<>>
             THEN KeyLines(Tail(ls))
             ELSE <<l>> \o KeyLines(Tail(ls))

\* getAltSigningKeys checking the signature of head itself instead of the
\* commit that last changed the keys file
getAltSigningKeys_VerifiesHead(head, vkeys, readOk) ==
    LET mostRecentHash == RevList(head)
        v == verifySignature(head, vkeys)
    IN  IF WorkTreeKeysFile = NoFile
        THEN [err |-> "keyFile does not exist", keys |-> <<>>]
        ELSE IF mostRecentHash = "fatal"
        THEN [err |-> "Can't get most recent commit hash of key file",
              keys |-> <<>>]
        ELSE IF v # "nil" THEN [err |-> v, keys |-> <<>>]
        ELSE IF ~readOk THEN [err |-> "read error", keys |-> <<>>]
        ELSE [err |-> "nil",
              keys |-> KeyLines(Split(WorkTreeKeysFile, NL))]

\* getAltSigningKeys, update.go:270-306; readOk: ioutil.ReadFile succeeds
getAltSigningKeys(head, vkeys, readOk) ==
    LET mostRecentHash == RevList(head)
        v == verifySignature(mostRecentHash, vkeys)
    IN  IF WorkTreeKeysFile = NoFile
        THEN [err |-> "keyFile does not exist", keys |-> <<>>]
        ELSE IF mostRecentHash = "fatal"
        THEN [err |-> "Can't get most recent commit hash of key file",
              keys |-> <<>>]
        ELSE IF v # "nil" THEN [err |-> v, keys |-> <<>>]
        ELSE IF ~readOk THEN [err |-> "read error", keys |-> <<>>]
        ELSE [err |-> "nil",
              keys |-> KeyLines(Split(WorkTreeKeysFile, NL))]

(***************************************************************************)
(* UpdatePlugin, update.go:75-155, one action per step of a caller.  The   *)
(* reads and writes of the two globals are steps of their own: the code    *)
(* takes no lock, so callers interleave between them.                      *)
(***************************************************************************)
Now == now

\* the messages of update.go:87 and update.go:96
InflightMsg == "Previous update inflight, do nothing"
TooRecentMsg == "Previous update too recent, do nothing"

\* return r: the locals of the call are gone
Return(p, r) ==
    /\ pc' = [pc EXCEPT ![p] = "idle"]
    /\ result' = [result EXCEPT ![p] = r]
    /\ ver' = [ver EXCEPT ![p] = ""]
    /\ keys' = [keys EXCEPT ![p] = <<>>]
    /\ err' = [err EXCEPT ![p] = "nil"]
    /\ verified' = [verified EXCEPT ![p] = 0]

\* reportFailure(subject, ...), update.go:27-42
reportFailure(p, subject) ==
    reports' = [reports EXCEPT ![p] = Append(@, subject)]

Goto(p, l) ==
    /\ pc' = [pc EXCEPT ![p] = l]
    /\ UNCHANGED result

\* the call and update.go:76-84
Call(p, v) ==
    /\ pc[p] = "idle"
    /\ reports' = [reports EXCEPT ![p] = <<>>]
    /\ IF ~cfg.Enabled
       THEN /\ Return(p, "plugin not enabled")
       ELSE /\ pc' = [pc EXCEPT ![p] = "checkInflight"]
            /\ result' = [result EXCEPT ![p] = "running"]
            /\ ver' = [ver EXCEPT ![p] = v]
            /\ UNCHANGED <<keys, err, verified>>
    /\ UNCHANGED <<envVars, fsVars, guardVars, pureVars, auditVars, suVars>>

\* update.go:86-92
CheckInflight(p) ==
    /\ pc[p] = "checkInflight"
    /\ IF updateInflight
       THEN Return(p, InflightMsg)
       ELSE Goto(p, "checkRecent") /\ UNCHANGED <<ver, keys, err, verified>>
    /\ UNCHANGED <<envVars, fsVars, guardVars, reports,
                   pureVars, auditVars, suVars>>

\* update.go:95-101 stamping the time of the rejected attempt
CheckRecent_StampsRejection(p) ==
    /\ pc[p] = "checkRecent"
    /\ IF Now - lastPluginUpdate < Cooldown
       THEN /\ Return(p, TooRecentMsg)
            /\ lastPluginUpdate' = Now
            /\ UNCHANGED updateInflight
       ELSE /\ Goto(p, "ensureGitRepo")
            /\ UNCHANGED <<ver, keys, err, verified, guardVars>>
    /\ lastPassed' = IF Now - lastPluginUpdate < Cooldown
                     THEN lastPassed ELSE Now
    /\ UNCHANGED <<envVars, fsVars, reports, pureVars, suVars>>

\* update.go:95-101
CheckRecent(p) ==
    /\ pc[p] = "checkRecent"
    /\ IF Now - lastPluginUpdate < Cooldown
       THEN Return(p, TooRecentMsg) /\ UNCHANGED lastPassed
       ELSE /\ Goto(p, "ensureGitRepo")
            /\ lastPassed' = Now
            /\ UNCHANGED <<ver, keys, err, verified>>
    /\ UNCHANGED <<envVars, fsVars, guardVars, reports, pureVars, suVars>>

\* update.go:103-117 with ensureGitRepo, update.go:157-184; o is the outcome
\* of git init and git remote add when the repository does not exist
EnsureGitRepo(p, o) ==
    /\ pc[p] = "ensureGitRepo"
    /\ parentDirExists' = TRUE
    /\ IF repoExists \/ o = "ok"
       THEN /\ repoExists' = TRUE
            /\ pc' = [pc EXCEPT ![p] = "setInflight"]
            /\ ver' = [ver EXCEPT ![p] =
                          IF ver[p] = "" THEN "origin/master" ELSE ver[p]]
            /\ UNCHANGED <<result, keys, err, verified, reports>>
       ELSE \* "Can't init plugin repo", or "Can't set repo remote" after
            \* os.RemoveAll(path)
            /\ repoExists' = FALSE
            /\ reportFailure(p, "git-fail")
            /\ Return(p, o)
    /\ UNCHANGED <<envVars, originMaster, HEAD, guardVars,
                   pureVars, auditVars, suVars>>

\* updateByFetch, update.go:190
SetInflight(p) ==
    /\ pc[p] = "setInflight"
    /\ updateInflight' = TRUE
    /\ Goto(p, "stampLast")
    /\ UNCHANGED <<envVars, fsVars, lastPluginUpdate, ver, keys, err,
                   verified, reports, pureVars, auditVars, suVars>>

\* updateByFetch, update.go:192
StampLast(p) ==
    /\ pc[p] = "stampLast"
    /\ lastPluginUpdate' = Now
    /\ Goto(p, "gitFetch")
    /\ UNCHANGED <<envVars, fsVars, updateInflight, ver, keys, err,
                   verified, reports, pureVars, auditVars, suVars>>

\* updateByFetch, update.go:194-202: timeout 120s git fetch
GitFetch(p, ok) ==
    /\ pc[p] = "gitFetch"
    /\ IF ok /\ repoExists
       THEN /\ originMaster' = remoteHead
            /\ err' = [err EXCEPT ![p] = "nil"]
       ELSE /\ UNCHANGED originMaster
            /\ err' = [err EXCEPT ![p] = "Update plugins by fetch error"]
    /\ Goto(p, "fetchReturn")
    /\ UNCHANGED <<envVars, parentDirExists, repoExists, HEAD, guardVars,
                   ver, keys, verified, reports, pureVars, auditVars, suVars>>

\* updateByFetch clearing the flag on its success path only
FetchReturn_NoDefer(p) ==
    /\ pc[p] = "fetchReturn"
    /\ IF err[p] # "nil"
       THEN /\ reportFailure(p, "git-fail")
            /\ Return(p, err[p])
            /\ UNCHANGED updateInflight
       ELSE /\ updateInflight' = FALSE
            /\ Goto(p, "resolveTrust")
            /\ UNCHANGED <<ver, keys, err, verified, reports>>
    /\ UNCHANGED <<envVars, fsVars, lastPluginUpdate,
                   pureVars, auditVars, suVars>>

\* the deferred function of updateByFetch, update.go:191, and update.go:118-122
FetchReturn(p) ==
    /\ pc[p] = "fetchReturn"
    /\ updateInflight' = FALSE
    /\ IF err[p] # "nil"
       THEN reportFailure(p, "git-fail") /\ Return(p, err[p])
       ELSE /\ Goto(p, "resolveTrust")
            /\ UNCHANGED <<ver, keys, err, verified, reports>>
    /\ UNCHANGED <<envVars, fsVars, lastPluginUpdate,
                   pureVars, auditVars, suVars>>

\* the keys UpdatePlugin builds at update.go:136
JoinKeys(altKeys, signingKeys) == altKeys \o signingKeys

\* update.go:123-138 and 144-146
ResolveTrust(p, readOk) ==
    /\ pc[p] = "resolveTrust"
    /\ IF Len(cfg.SigningKeys) = 0
       THEN /\ Goto(p, "checkoutCommit")
            /\ UNCHANGED <<keys, reports, ver, err, verified>>
       ELSE IF cfg.AltSigningKeysFile = ""
       THEN /\ Goto(p, "verifySignature")
            /\ keys' = [keys EXCEPT ![p] = cfg.SigningKeys]
            /\ UNCHANGED <<reports, ver, err, verified>>
       ELSE LET r == getAltSigningKeys(ver[p], cfg.SigningKeys, readOk)
            IN  IF r.err = "PANIC"
                THEN \* the panic of verifySignature leaves UpdatePlugin
                     Return(p, "PANIC") /\ UNCHANGED reports
                ELSE IF r.err # "nil"
                THEN /\ Goto(p, "verifySignature")
                     /\ keys' = [keys EXCEPT ![p] = cfg.SigningKeys]
                     /\ reportFailure(p, "alt-key-fail")
                     /\ UNCHANGED <<ver, err, verified>>
                ELSE /\ Goto(p, "verifySignature")
                     /\ keys' = [keys EXCEPT ![p] =
                                     JoinKeys(r.keys, cfg.SigningKeys)]
                     /\ UNCHANGED <<reports, ver, err, verified>>
    /\ UNCHANGED <<envVars, fsVars, guardVars, pureVars, auditVars, suVars>>

\* update.go:139-143 without the return on a failed verification
VerifyTarget_NoReturn(p) ==
    /\ pc[p] = "verifySignature"
    /\ LET r == verifySignature(ver[p], keys[p])
       IN  IF r = "nil"
           THEN /\ Goto(p, "checkoutCommit")
                /\ verified' = [verified EXCEPT ![p] = RevParse(ver[p])]
                /\ UNCHANGED <<ver, keys, err, reports>>
           ELSE IF r = "PANIC"
           THEN Return(p, r) /\ UNCHANGED reports
           ELSE /\ reportFailure(p, "signature-fail")
                /\ Goto(p, "checkoutCommit")
                /\ UNCHANGED <<ver, keys, err, verified>>
    /\ UNCHANGED <<envVars, fsVars, guardVars, pureVars, auditVars, suVars>>

\* update.go:139-143
VerifyTarget(p) ==
    /\ pc[p] = "verifySignature"
    /\ LET r == verifySignature(ver[p], keys[p])
       IN  IF r = "nil"
           THEN /\ Goto(p, "checkoutCommit")
                /\ verified' = [verified EXCEPT ![p] = RevParse(ver[p])]
                /\ UNCHANGED <<ver, keys, err, reports>>
           ELSE IF r = "PANIC"
           THEN \* index out of range: the panic leaves UpdatePlugin
                Return(p, r) /\ UNCHANGED reports
           ELSE reportFailure(p, "signature-fail") /\ Return(p, r)
    /\ UNCHANGED <<envVars, fsVars, guardVars, pureVars, auditVars, suVars>>

\* update.go:148-154 with checkoutCommit, update.go:308-320: git reset --hard
CheckoutCommit(p, ok) ==
    /\ pc[p] = "checkoutCommit"
    /\ IF ok /\ RevParse(ver[p]) # 0
       THEN /\ HEAD' = RevParse(ver[p])
            /\ Return(p, "nil")
            /\ UNCHANGED reports
       ELSE /\ UNCHANGED HEAD
            /\ reportFailure(p, "git-fail")
            /\ Return(p, "git reset --hard failed")
    /\ UNCHANGED <<envVars, parentDirExists, repoExists, originMaster,
                   guardVars, pureVars, auditVars, suVars>>

(***************************************************************************)
(* The environment: the clock and pushes to the remote.                    *)
(***************************************************************************)
Tick ==
    /\ now + TickSeconds <= StartTime + MaxTicks * TickSeconds
    /\ now' = now + TickSeconds
    /\ UNCHANGED <<cfg, history, remoteHead, fsVars, guardVars, callVars,
                   pureVars, auditVars, suVars>>

RemotePush ==
    /\ remoteHead < Len(history)
    /\ remoteHead' = remoteHead + 1
    /\ UNCHANGED <<cfg, history, now, fsVars, guardVars, callVars,
                   pureVars, auditVars, suVars>>

\* TrySelfUpdate is not running: the values of its variables
SelfUpdateIdle ==
    /\ selfUpdate = FALSE
    /\ running = "b1"
    /\ selfFile = "b1"
    /\ newFile = "none"
    /\ backups = <<>>
    /\ suPc = "idle"
    /\ selfHash = <<>>
    /\ newHash = <<>>
    /\ suResult = "none"
    /\ renames = 0
    /\ copies = 0
    /\ execs = 0

Init ==
    /\ cfg \in Configs
    /\ history \in Histories
    /\ remoteHead = 1
    /\ now = StartTime
    /\ parentDirExists = FALSE
    /\ repoExists = FALSE
    /\ originMaster = 0
    /\ HEAD = 0
    /\ updateInflight = FALSE
    /\ lastPluginUpdate = 0
    /\ pc = [p \in Callers |-> "idle"]
    /\ ver = [p \in Callers |-> ""]
    /\ keys = [p \in Callers |-> <<>>]
    /\ err = [p \in Callers |-> "nil"]
    /\ result = [p \in Callers |-> "none"]
    /\ reports = [p \in Callers |-> <<>>]
    /\ verified = [p \in Callers |-> 0]
    /\ content = <<>>
    /\ validKeys = <<>>
    /\ verdict = "none"
    /\ lastPassed = 0
    /\ SelfUpdateIdle

Next ==
    \/ \E p \in Callers, v \in Targets : Call(p, v)
    \/ \E p \in Callers : CheckInflight(p)
    \/ \E p \in Callers : CheckRecent(p)
    \/ \E p \in Callers, o \in {"ok", "Can't init plugin repo",
                                "Can't set repo remote, aborting"} :
           EnsureGitRepo(p, o)
    \/ \E p \in Callers : SetInflight(p)
    \/ \E p \in Callers : StampLast(p)
    \/ \E p \in Callers, ok \in BOOLEAN : GitFetch(p, ok)
    \/ \E p \in Callers : FetchReturn(p)
    \/ \E p \in Callers, readOk \in BOOLEAN : ResolveTrust(p, readOk)
    \/ \E p \in Callers : VerifyTarget(p)
    \/ \E p \in Callers, ok \in BOOLEAN : CheckoutCommit(p, ok)
    \/ Tick
    \/ RemotePush

Spec == Init /\ [][Next]_vars

\* a caller inside updateByFetch takes its next step: the assignments are
\* local, and timeout(1) ends the fetch after 120 seconds
Fairness(p) ==
    /\ WF_vars(StampLast(p))
    /\ WF_vars(\E ok \in BOOLEAN : GitFetch(p, ok))
    /\ WF_vars(FetchReturn(p))

\* the fetch steps do not read the history: one history is enough here
FairInit == Init /\ history = HistB

FairSpec == FairInit /\ [][Next]_vars /\ \A p \in Callers : Fairness(p)

(***************************************************************************)
(* verifySignature on its own: the text of a commit object and a key list  *)
(* drawn from bounded sets, and one call of update.go:219-267 on them.     *)
(***************************************************************************)
LineShapes ==
    { TreeLine(H1),
      TreeLine(H2),
      AuthorLine,
      SignLine(KA, Sign(KA, H1)),
      SignLine(KA, Sign(KA, H2)),
      SignLine(<<"K">>, Sign(KA, H1)),
      SignLine(QC, Sign(QC, H1)),
      SignLine(KA, Flipped(KA, H1)),
      SignLine(KA, Sign(KA, H1)) \o <<":", "X">>,
      SignMarker \o KA }

RECURSIVE Texts(_)
\* the texts of exactly n lines
Texts(n) ==
    IF n = 0 THEN {<<>>}
    ELSE IF n = 1 THEN LineShapes
    ELSE {l \o <<NL>> \o t : l \in LineShapes, t \in Texts(n - 1)}

Contents == UNION {Texts(n) : n \in 0..MaxLines}

KeyLists ==
    { <<>>,
      <<Entry(KA)>>,
      <<Entry(QC)>>,
      <<Entry(KA), Entry(KB)>>,
      <<Entry(KB), Entry(KA)>> }

VerifyInit ==
    /\ cfg = Config(TRUE, <<Entry(KA)>>, "keys")
    /\ history = HistA
    /\ remoteHead = 1
    /\ now = StartTime
    /\ parentDirExists = FALSE
    /\ repoExists = FALSE
    /\ originMaster = 0
    /\ HEAD = 0
    /\ updateInflight = FALSE
    /\ lastPluginUpdate = 0
    /\ pc = [p \in Callers |-> "idle"]
    /\ ver = [p \in Callers |-> ""]
    /\ keys = [p \in Callers |-> <<>>]
    /\ err = [p \in Callers |-> "nil"]
    /\ result = [p \in Callers |-> "none"]
    /\ reports = [p \in Callers |-> <<>>]
    /\ verified = [p \in Callers |-> 0]
    /\ content \in Contents
    /\ validKeys \in KeyLists
    /\ verdict = "none"
    /\ lastPassed = 0
    /\ SelfUpdateIdle

\* update.go:219-267 run on content and validKeys
RunVerify ==
    /\ verdict = "none"
    /\ verdict' = verifyContent(content, validKeys)
    /\ UNCHANGED <<updVars, content, validKeys, suVars>>

VerifyNext == RunVerify

VerifySpec == VerifyInit /\ [][VerifyNext]_vars

(***************************************************************************)
(* TrySelfUpdate, update.go:344-418.  A file is "none" (absent), the       *)
(* content of a complete binary, or "partial" (what an interrupted cp      *)
(* leaves).  The candidate lies in the plugin checkout, so a checkout      *)
(* changes it at any time.  The backup path is selfPath + "." + the hex    *)
(* digest of the file hashed at selfPath: one backup file per digest.      *)
(***************************************************************************)
Binaries == {"b1", "b2"}
FileContents == Binaries \cup {"partial"}

\* sha256 of a file's content, update.go:366-386
Digest(c) == <<"sha256", c>>
Digests == {Digest(c) : c \in FileContents}

\* return from TrySelfUpdate
SelfReturn(r) ==
    /\ suPc' = "idle"
    /\ suResult' = r

\* the call and update.go:345-356; pathOk: osext.Executable succeeds
SelfCall(pathOk) ==
    /\ suPc = "idle"
    /\ renames' = 0
    /\ copies' = 0
    /\ execs' = 0
    /\ selfHash' = <<>>
    /\ newHash' = <<>>
    /\ IF ~selfUpdate THEN SelfReturn("nil")
       ELSE IF ~pathOk THEN SelfReturn("osext.Executable error")
       ELSE suPc' = "checkNew" /\ suResult' = "running"
    /\ UNCHANGED <<updVars, pureVars, selfUpdate, binVars>>

\* update.go:358-364
CheckNew ==
    /\ suPc = "checkNew"
    /\ IF newFile = "none" THEN SelfReturn("nil")
       ELSE suPc' = "hashSelf" /\ UNCHANGED suResult
    /\ UNCHANGED <<updVars, pureVars, selfUpdate, binVars, selfHash, newHash,
                   renames, copies, execs>>

\* update.go:366-375; ok: os.Open and io.Copy succeed
HashSelf(ok) ==
    /\ suPc = "hashSelf"
    /\ IF selfFile = "none" \/ ~ok
       THEN SelfReturn("read error") /\ UNCHANGED selfHash
       ELSE /\ selfHash' = Digest(selfFile)
            /\ suPc' = "hashNew"
            /\ UNCHANGED suResult
    /\ UNCHANGED <<updVars, pureVars, selfUpdate, binVars, newHash,
                   renames, copies, execs>>

\* update.go:377-386
HashNew(ok) ==
    /\ suPc = "hashNew"
    /\ IF newFile = "none" \/ ~ok
       THEN SelfReturn("read error") /\ UNCHANGED newHash
       ELSE /\ newHash' = Digest(newFile)
            /\ suPc' = "compare"
            /\ UNCHANGED suResult
    /\ UNCHANGED <<updVars, pureVars, selfUpdate, binVars, selfHash,
                   renames, copies, execs>>

\* update.go:388-390 starting the script whatever the digests are
Compare_AlwaysSwap ==
    /\ suPc = "compare"
    /\ suPc' = "scriptCheck"
    /\ UNCHANGED suResult
    /\ UNCHANGED <<updVars, pureVars, selfUpdate, binVars, selfHash, newHash,
                   renames, copies, execs>>

\* update.go:388-390, and the start of bash at update.go:409-410
Compare ==
    /\ suPc = "compare"
    /\ IF selfHash = newHash THEN SelfReturn("nil")
       ELSE suPc' = "scriptCheck" /\ UNCHANGED suResult
    /\ UNCHANGED <<updVars, pureVars, selfUpdate, binVars, selfHash, newHash,
                   renames, copies, execs>>

\* the script, update.go:398-401: if [ ! -f "$NEW" ]; then exit 1; fi
ScriptCheck ==
    /\ suPc = "scriptCheck"
    /\ IF newFile = "none" THEN SelfReturn("exit status 1")
       ELSE suPc' = "scriptRm" /\ UNCHANGED suResult
    /\ UNCHANGED <<updVars, pureVars, selfUpdate, binVars, selfHash, newHash,
                   renames, copies, execs>>

\* the script, update.go:402-404: if [ -f "$RENAME" ]; then rm -f $RENAME; fi
ScriptRm(ok) ==
    /\ suPc = "scriptRm"
    /\ IF backups[selfHash] = "none"
       THEN suPc' = "scriptMv" /\ UNCHANGED <<suResult, backups>>
       ELSE IF ok
       THEN /\ backups' = [backups EXCEPT ![selfHash] = "none"]
            /\ suPc' = "scriptMv"
            /\ UNCHANGED suResult
       ELSE SelfReturn("exit status 1") /\ UNCHANGED backups
    /\ UNCHANGED <<updVars, pureVars, selfUpdate, running, selfFile, newFile,
                   selfHash, newHash, renames, copies, execs>>

\* the script removing the current binary instead of renaming it
ScriptMv_Removes(ok) ==
    /\ suPc = "scriptMv"
    /\ IF selfFile = "none" \/ ~ok
       THEN SelfReturn("exit status 1")
            /\ UNCHANGED <<selfFile, backups, renames>>
       ELSE /\ selfFile' = "none"
            /\ renames' = renames + 1
            /\ suPc' = "scriptCp"
            /\ UNCHANGED <<suResult, backups>>
    /\ UNCHANGED <<updVars, pureVars, selfUpdate, running, newFile,
                   selfHash, newHash, copies, execs>>

\* the script, update.go:405: mv $SELF $RENAME
ScriptMv(ok) ==
    /\ suPc = "scriptMv"
    /\ IF selfFile = "none" \/ ~ok
       THEN SelfReturn("exit status 1")
            /\ UNCHANGED <<selfFile, backups, renames>>
       ELSE /\ backups' = [backups EXCEPT ![selfHash] = selfFile]
            /\ selfFile' = "none"
            /\ renames' = renames + 1
            /\ suPc' = "scriptCp"
            /\ UNCHANGED suResult
    /\ UNCHANGED <<updVars, pureVars, selfUpdate, running, newFile,
                   selfHash, newHash, copies, execs>>

\* the script, update.go:406: cp -a $NEW $SELF, and update.go:410-412;
\* o: the copy completes, fails before it created the file, or fails midway
ScriptCp(o) ==
    /\ suPc = "scriptCp"
    /\ IF newFile # "none" /\ o = "ok"
       THEN /\ selfFile' = newFile
            /\ copies' = copies + 1
            /\ suPc' = "exec"
            /\ UNCHANGED suResult
       ELSE /\ selfFile' =
                  IF newFile # "none" /\ o = "partial" THEN "partial"
                  ELSE selfFile
            /\ SelfReturn("exit status 1")
            /\ UNCHANGED copies
    /\ UNCHANGED <<updVars, pureVars, selfUpdate, running, newFile, backups,
                   selfHash, newHash, renames, execs>>

\* bash is killed between two commands of the script, update.go:409-412
ScriptKilled ==
    /\ suPc \in {"scriptCheck", "scriptRm", "scriptMv", "scriptCp"}
    /\ SelfReturn("signal: killed")
    /\ UNCHANGED <<updVars, pureVars, selfUpdate, binVars, selfHash, newHash,
                   renames, copies, execs>>

\* update.go:414-417: syscall.Exec(selfPath, ...); when it succeeds the
\* process runs the file at selfPath, when it fails TrySelfUpdate returns
Exec(ok) ==
    /\ suPc = "exec"
    /\ execs' = execs + 1
    /\ IF ok /\ selfFile \in Binaries
       THEN running' = selfFile /\ SelfReturn("replaced")
       ELSE UNCHANGED running /\ SelfReturn("Can't do exec!")
    /\ UNCHANGED <<updVars, pureVars, selfUpdate, selfFile, newFile, backups,
                   selfHash, newHash, renames, copies>>

\* a checkout of the plugin repository (update.go:308-320) brings, changes
\* or removes the candidate at CheckoutPath/satori-agent
CheckoutCandidate(c) ==
    /\ newFile # c
    /\ newFile' = c
    /\ UNCHANGED <<updVars, pureVars, selfUpdate, running, selfFile, backups,
                   suPc, selfHash, newHash, suResult, renames, copies, execs>>

SelfUpdateInit ==
    /\ cfg = Config(TRUE, <<Entry(KA)>>, "keys")
    /\ history = HistA
    /\ remoteHead = 1
    /\ now = StartTime
    /\ parentDirExists = FALSE
    /\ repoExists = FALSE
    /\ originMaster = 0
    /\ HEAD = 0
    /\ updateInflight = FALSE
    /\ lastPluginUpdate = 0
    /\ pc = [p \in Callers |-> "idle"]
    /\ ver = [p \in Callers |-> ""]
    /\ keys = [p \in Callers |-> <<>>]
    /\ err = [p \in Callers |-> "nil"]
    /\ result = [p \in Callers |-> "none"]
    /\ reports = [p \in Callers |-> <<>>]
    /\ verified = [p \in Callers |-> 0]
    /\ lastPassed = 0
    /\ content = <<>>
    /\ validKeys = <<>>
    /\ verdict = "none"
    /\ selfUpdate \in BOOLEAN
    /\ running = "b1"
    /\ selfFile = "b1"
    /\ newFile \in Binaries \cup {"none"}
    /\ backups = [d \in Digests |-> "none"]
    /\ suPc = "idle"
    /\ selfHash = <<>>
    /\ newHash = <<>>
    /\ suResult = "none"
    /\ renames = 0
    /\ copies = 0
    /\ execs = 0

SelfUpdateNext ==
    \/ \E pathOk \in BOOLEAN : SelfCall(pathOk)
    \/ CheckNew
    \/ \E ok \in BOOLEAN : HashSelf(ok)
    \/ \E ok \in BOOLEAN : HashNew(ok)
    \/ Compare
    \/ ScriptCheck
    \/ \E ok \in BOOLEAN : ScriptRm(ok)
    \/ \E ok \in BOOLEAN : ScriptMv(ok)
    \/ \E o \in {"ok", "none", "partial"} : ScriptCp(o)
    \/ ScriptKilled
    \/ \E ok \in BOOLEAN : Exec(ok)
    \/ \E c \in Binaries \cup {"none"} : CheckoutCandidate(c)

SelfUpdateSpec == SelfUpdateInit /\ [][SelfUpdateNext]_vars

(***************************************************************************)
(* Notions the properties are stated with.                                 *)
(***************************************************************************)
\* the caller is executing fetch, trust resolution, verification or checkout
Working(p) ==
    pc[p] \in {"gitFetch", "fetchReturn", "resolveTrust", "verifySignature",
               "checkoutCommit"}

\* the caller is inside updateByFetch after it set the flag
InFetch(p) == pc[p] \in {"stampLast", "gitFetch", "fetchReturn"}

\* the lines of a text that begin with a marker
MarkedLines(text, marker) ==
    LET ls == Split(text, NL)
    IN  {i \in 1..Len(ls) : HasPrefix(ls[i], marker)}

\* the hash on the first line of the text that begins with the tree marker
FirstTreeHash(text) ==
    LET ls == Split(text, NL)
        idx == MarkedLines(text, TreeMarker)
        first == CHOOSE i \in idx : \A j \in idx : i <= j
    IN  IF idx = {} THEN <<>>
        ELSE TrimSpace(Drop(ls[first], Len(TreeMarker)))

\* the colon-separated parts of the signature lines of the text
SignRecords(text) ==
    LET ls == Split(text, NL)
    IN  {Split(TrimSpace(Drop(ls[i], Len(SignMarker))), ":") :
            i \in MarkedLines(text, SignMarker)}

\* the base64 keys of a key list
KeysOf(vkeys) == {Fields(vkeys[i])[1] : i \in 1..Len(vkeys)}

\* the last commit at or before commit t that changed the keys file, 0 if none
LastKeysChange(t) ==
    LET changed == {i \in 1..t : history[i].keysFile
                        # (IF i = 1 THEN NoFile ELSE history[i - 1].keysFile)}
    IN  IF changed = {} THEN 0
        ELSE CHOOSE i \in changed : \A j \in changed : j <= i

\* commit t is signed by one of the keys of the list
SignedBy(t, vkeys) == t # 0 /\ verifyContent(history[t].meta, vkeys) = "nil"

\* the keys file's last change at or before t is signed by a primary key
KeysFileTrusted(t) ==
    /\ t # 0
    /\ LastKeysChange(t) # 0
    /\ SignedBy(LastKeysChange(t), cfg.SigningKeys)

\* scenario C for the commit t: it carries a keys file whose last change is
\* signed by a primary key, and it is signed by a key only that file lists
ScenarioC(t) ==
    /\ cfg.AltSigningKeysFile # ""
    /\ t # 0
    /\ history[t].keysFile # NoFile
    /\ KeysFileTrusted(t)
    /\ ~SignedBy(t, cfg.SigningKeys)
    /\ SignedBy(t, KeyLines(Split(history[t].keysFile, NL)))

(***************************************************************************)
(* C1: single flight: no two callers are at the same time executing fetch, *)
(* verification or checkout on the working copy.                           *)
(***************************************************************************)
C1_SingleFlight ==
    \A p, q \in Callers : p # q => ~(Working(p) /\ Working(q))

(***************************************************************************)
(* C2: with signing keys configured, a caller is at checkout only after    *)
(* verifySignature accepted the target in the same attempt; an attempt     *)
(* whose verification fails returns the error and leaves the working tree  *)
(* where it was; only a checkout step moves the working tree.              *)
(***************************************************************************)
C2_CheckoutGated ==
    /\ [](\A p \in Callers :
            pc[p] = "checkoutCommit" /\ Len(cfg.SigningKeys) > 0
                => verified[p] # 0)
    /\ [][\A p \in Callers :
            /\ pc[p] = "verifySignature"
            /\ pc'[p] # "verifySignature"
            /\ verifySignature(ver[p], keys[p]) # "nil"
            => /\ pc'[p] = "idle"
               /\ result'[p] = verifySignature(ver[p], keys[p])
               /\ HEAD' = HEAD]_vars
    /\ [][HEAD' # HEAD =>
            \E p \in Callers :
                /\ pc[p] = "checkoutCommit"
                /\ Len(cfg.SigningKeys) > 0 => verified[p] # 0]_vars

\* an attempt failed on a commit signed by an untrusted key, and the working
\* tree is still at the commit of the attempt before
C2_Witness ==
    \E p \in Callers :
        /\ result[p] = "Signing key untrusted"
        /\ reports[p] = <<"alt-key-fail", "signature-fail">>
        /\ history = HistB
        /\ originMaster = 2
        /\ HEAD = 1

(***************************************************************************)
(* C3: verifySignature accepts only a signature made over the hash of the  *)
(* first tree line of the text.                                            *)
(***************************************************************************)
C3_FirstTreeLine ==
    verdict = "nil" =>
        \E a \in SignRecords(content), k \in KeysOf(validKeys) :
            /\ Len(a) >= 2
            /\ Ed25519Verify(CopyFixed(k, KeySize), FirstTreeHash(content),
                             CopyFixed(a[2], SignatureSize))

(***************************************************************************)
(* C4: verifySignature accepts only a text with exactly one signature line *)
(* that is a colon-separated pair, and it never panics.                    *)
(***************************************************************************)
C4_FailClosed ==
    /\ verdict # "PANIC"
    /\ verdict = "nil" =>
          /\ Cardinality(MarkedLines(content, SignMarker)) = 1
          /\ \A a \in SignRecords(content) : Len(a) = 2

(***************************************************************************)
(* C5: the key list given to the verification of the target begins with    *)
(* the primary keys; the alternate keys follow them.                       *)
(***************************************************************************)
C5_PrimaryFirst ==
    \A p \in Callers :
        pc[p] = "verifySignature" => HasPrefix(keys[p], cfg.SigningKeys)

(***************************************************************************)
(* C6: trust resolution adds keys to the primary keys only if the last     *)
(* commit that changed the keys file, at or before the target, is signed   *)
(* by a primary key; otherwise the attempt goes on with the primary keys   *)
(* alone and the failure is reported.                                      *)
(***************************************************************************)
C6_OneLevelDelegation ==
    [][\A p \in Callers :
          pc[p] = "resolveTrust" /\ pc'[p] = "verifySignature"
          /\ ~KeysFileTrusted(RevParse(ver[p]))
          => /\ keys'[p] = cfg.SigningKeys
             /\ cfg.AltSigningKeysFile # ""
                   => reports'[p] = Append(reports[p], "alt-key-fail")]_vars

\* the keys file of the working tree was last changed by a commit signed by
\* an alternate key, the target is signed by a primary key, and the attempt
\* goes on with the primary keys alone
C6_Witness ==
    \E p \in Callers :
        /\ pc[p] = "verifySignature"
        /\ history = HistB
        /\ HEAD = 1
        /\ RevParse(ver[p]) = 3
        /\ SignedBy(3, cfg.SigningKeys)
        /\ ~KeysFileTrusted(3)
        /\ keys[p] = cfg.SigningKeys
        /\ reports[p] = <<"alt-key-fail">>

(***************************************************************************)
(* C7: scenario C: when the target carries a keys file whose last change   *)
(* is signed by a primary key and the target is signed by a key listed     *)
(* only in that file, the verification of the target passes.               *)
(***************************************************************************)
C7_ScenarioC ==
    [][\A p \in Callers :
          /\ pc[p] = "verifySignature"
          /\ pc'[p] # "verifySignature"
          /\ ScenarioC(RevParse(ver[p]))
          => pc'[p] = "checkoutCommit"]_vars

(***************************************************************************)
(* C8: the in-flight flag is true for as long as an attempt is fetching,   *)
(* resolving trust, verifying or checking out.                             *)
(***************************************************************************)
C8_FlagCoversAttempt ==
    \A p \in Callers : Working(p) => updateInflight

(***************************************************************************)
(* C9: every attempt that set the in-flight flag clears it: the caller     *)
(* leaves updateByFetch, the step that leaves it has the flag false, the   *)
(* flag is false when no attempt is running, and the guards let an attempt *)
(* pass that starts when no other attempt is running and the cooldown has  *)
(* elapsed.                                                                *)
(***************************************************************************)
C9_FlagReleased ==
    /\ \A p \in Callers : InFetch(p) ~> ~InFetch(p)
    /\ [][\A p \in Callers :
            InFetch(p) /\ ~InFetch(p)' => ~updateInflight']_vars
    /\ []((\A p \in Callers : pc[p] = "idle") => ~updateInflight)
    /\ [][\A p \in Callers :
            /\ pc[p] = "checkInflight"
            /\ pc'[p] # "checkInflight"
            /\ \A q \in Callers \ {p} : pc[q] = "idle"
            => pc'[p] = "checkRecent"]_vars
    /\ [][\A p \in Callers :
            /\ pc[p] = "checkRecent"
            /\ pc'[p] # "checkRecent"
            /\ now - lastPluginUpdate >= Cooldown
            => pc'[p] = "ensureGitRepo"]_vars

\* an attempt failed at checkout and a later attempt got past the guards
C9_Witness ==
    \E p, q \in Callers :
        /\ result[p] = "git reset --hard failed"
        /\ pc[p] = "idle"
        /\ pc[q] = "ensureGitRepo"
        /\ ~updateInflight
        /\ lastPluginUpdate = StartTime

(***************************************************************************)
(* C10: a call rejected by a guard changes neither the in-flight flag nor  *)
(* the timestamp nor the file system nor the repository, reports nothing,  *)
(* and returns the message of the guard that rejected it.                  *)
(***************************************************************************)
C10_RejectionNoEffect ==
    [][\A p \in Callers :
          pc[p] \in {"checkInflight", "checkRecent"} /\ pc'[p] = "idle"
          => /\ UNCHANGED <<guardVars, fsVars>>
             /\ reports'[p] = <<>>
             /\ result'[p] =
                   IF pc[p] = "checkInflight" THEN InflightMsg
                   ELSE TooRecentMsg
             /\ InflightMsg # TooRecentMsg]_vars

\* one call was rejected as in flight and one as too recent
C10_Witness ==
    \E p, q \in Callers :
        /\ result[p] = InflightMsg
        /\ result[q] = TooRecentMsg
        /\ reports[p] = <<>>
        /\ reports[q] = <<>>

(***************************************************************************)
(* C11: a call that gets past the cooldown guard does so at least 300      *)
(* seconds after the previous call that got past it, whatever became of    *)
(* that previous call.                                                     *)
(***************************************************************************)
C11_Cooldown ==
    [][\A p \in Callers :
          pc[p] = "checkRecent" /\ pc'[p] = "ensureGitRepo"
          => lastPassed = 0 \/ now - lastPassed >= Cooldown]_vars

(***************************************************************************)
(* C12: on a text none of whose lines begins with the tree marker,         *)
(* verifySignature returns "Can't find tree hash", whatever signature      *)
(* lines the text has.                                                     *)
(***************************************************************************)
C12_NoTreeLine ==
    verdict # "none" /\ MarkedLines(content, TreeMarker) = {}
    => verdict = "Can't find tree hash"

\* the text has exactly one line with the tree marker, and it carries a hash
OneTreeHash(text) ==
    /\ Cardinality(MarkedLines(text, TreeMarker)) = 1
    /\ FirstTreeHash(text) # <<>>

\* the text has exactly one signature line, of the form keyid:sig with sig a
\* non-empty base64 text
OneSignRecord(text) ==
    /\ Cardinality(MarkedLines(text, SignMarker)) = 1
    /\ \A rec \in SignRecords(text) :
          /\ Len(rec) = 2
          /\ rec[2] # <<>>
          /\ DecodeString(rec[2]) # DecodeError

\* the record of a text with OneSignRecord
TheSignRecord(text) == CHOOSE rec \in SignRecords(text) : TRUE

\* the entries of the key list that keyid is a prefix of
Matching(vkeys, keyid) == {i \in 1..Len(vkeys) : HasPrefix(vkeys[i], keyid)}

\* the first of them
FirstMatch(vkeys, keyid) ==
    CHOOSE i \in Matching(vkeys, keyid) :
        \A j \in Matching(vkeys, keyid) : i <= j

\* the outcome the cases of C13 give for a text with one tree hash and one
\* well-formed signature record
OutcomeByCase(text, vkeys) ==
    LET rec == TheSignRecord(text)
        hash == FirstTreeHash(text)
    IN  IF Matching(vkeys, rec[1]) = {} THEN "Signing key untrusted"
        ELSE IF rec[2] = Sign(Fields(vkeys[FirstMatch(vkeys, rec[1])])[1], hash)
        THEN "nil"
        ELSE "Signature invalid"

(***************************************************************************)
(* C13: on a text with one tree hash and one well-formed signature record  *)
(* (keyid, sig), verifySignature returns the untrusted-key failure when    *)
(* keyid is a prefix of no trusted key, success when sig is the matched    *)
(* key's signature of the tree hash, and the signature-invalid failure     *)
(* otherwise; on a text with one tree hash and no signature line it        *)
(* returns the no-signature failure; the four outcomes differ.             *)
(***************************************************************************)
C13_OutcomeByCase ==
    verdict # "none" /\ OneTreeHash(content)
    => /\ MarkedLines(content, SignMarker) = {}
          => verdict = "Signature not found"
       /\ OneSignRecord(content)
          => verdict = OutcomeByCase(content, validKeys)
       /\ Cardinality({"Signing key untrusted", "nil", "Signature invalid",
                       "Signature not found"}) = 4

\* a signature with one bit flipped, from a trusted key, was rejected
C13_Witness ==
    /\ OneTreeHash(content)
    /\ OneSignRecord(content)
    /\ TheSignRecord(content) = <<KA, Flipped(KA, H1)>>
    /\ FirstTreeHash(content) = H1
    /\ validKeys = <<Entry(KA)>>
    /\ verdict = "Signature invalid"

(***************************************************************************)
(* C14: when the key id of the signature line is a prefix of two or more   *)
(* entries of the key list, verifySignature uses the key of the entry with *)
(* the smallest index, and returns what it returns on the list cut after   *)
(* that entry.                                                             *)
(***************************************************************************)
C14_FirstMatchWins ==
    /\ verdict # "none"
    /\ Cardinality(MarkedLines(content, SignMarker)) = 1
    /\ Len(TheSignRecord(content)) >= 2
    /\ Cardinality(Matching(validKeys, TheSignRecord(content)[1])) >= 2
    => LET first == FirstMatch(validKeys, TheSignRecord(content)[1])
       IN  /\ Scan(content, validKeys).key = Fields(validKeys[first])[1]
           /\ verdict = verifyContent(content, SubSeq(validKeys, 1, first))

\* the key id "K" matched KB before KA, and KA's signature was rejected
C14_Witness ==
    /\ Cardinality(MarkedLines(content, SignMarker)) = 1
    /\ TheSignRecord(content) = <<<<"K">>, Sign(KA, H1)>>
    /\ OneTreeHash(content)
    /\ FirstTreeHash(content) = H1
    /\ validKeys = <<Entry(KB), Entry(KA)>>
    /\ verdict = "Signature invalid"

(***************************************************************************)
(* C15: with signing keys configured, the step that resolves the trusted   *)
(* keys always goes on to the verification of the target: with the         *)
(* alternate keys in front of the primary keys when getAltSigningKeys      *)
(* succeeded, and with exactly the primary keys when it failed or no       *)
(* alternate keys file is configured.                                      *)
(***************************************************************************)
C15_AltFailureNotFatal ==
    [][\A p \in Callers :
          /\ pc[p] = "resolveTrust"
          /\ pc'[p] # "resolveTrust"
          /\ Len(cfg.SigningKeys) > 0
          => LET r == getAltSigningKeys(ver[p], cfg.SigningKeys, TRUE)
             IN  /\ pc'[p] = "verifySignature"
                 /\ \/ keys'[p] = cfg.SigningKeys
                    \/ /\ cfg.AltSigningKeysFile # ""
                       /\ r.err = "nil"
                       /\ keys'[p] = JoinKeys(r.keys, cfg.SigningKeys)]_vars

\* the call of p has returned a failure of one of the stages
StageFailed(p) ==
    /\ pc[p] = "idle"
    /\ result[p] \notin {"none", "running", "nil", "plugin not enabled",
                         InflightMsg, TooRecentMsg}

\* the stage a returned failure comes from
FailStage(r) ==
    IF r \in {"Can't init plugin repo", "Can't set repo remote, aborting"}
    THEN "ensure-repo"
    ELSE IF r = "Update plugins by fetch error" THEN "fetch"
    ELSE IF r = "git reset --hard failed" THEN "checkout"
    ELSE "verification"

(***************************************************************************)
(* C18: the subjects of the failure reports of two calls that failed at   *)
(* different stages (ensure-repo, fetch, verification, checkout) differ.   *)
(***************************************************************************)
C18_DistinctSubjects ==
    \A p, q \in Callers :
        /\ StageFailed(p)
        /\ StageFailed(q)
        /\ FailStage(result[p]) # FailStage(result[q])
        /\ reports[p] # <<>>
        /\ reports[q] # <<>>
        => reports[p][Len(reports[p])] # reports[q][Len(reports[q])]

(***************************************************************************)
(* C19: with signing keys configured, the commit a successful checkout     *)
(* resets the working tree to is the commit whose signature that attempt   *)
(* verified.                                                               *)
(***************************************************************************)
C19_CheckoutIsVerified ==
    [][\A p \in Callers :
          /\ pc[p] = "checkoutCommit"
          /\ pc'[p] = "idle"
          /\ result'[p] = "nil"
          /\ Len(cfg.SigningKeys) > 0
          => HEAD' = verified[p]]_vars

\* the entries of a key list
Entries(vkeys) == {vkeys[i] : i \in 1..Len(vkeys)}

\* the key lines of the keys file as it stands in the commit that last
\* changed it at or before commit t
VerifiedKeyLines(t) ==
    IF t = 0 \/ LastKeysChange(t) = 0 THEN {}
    ELSE Entries(KeyLines(Split(KeysFileAt(LastKeysChange(t)), NL)))

(***************************************************************************)
(* C20: every key an attempt trusts besides the primary keys is a line of  *)
(* the keys file as it stands in the commit that last changed the file at  *)
(* or before the target, the commit getAltSigningKeys verified.            *)
(***************************************************************************)
C20_KeysFromVerifiedFile ==
    [][\A p \in Callers :
          /\ pc[p] = "resolveTrust"
          /\ pc'[p] = "verifySignature"
          => Entries(keys'[p]) \subseteq
                Entries(cfg.SigningKeys)
                \cup VerifiedKeyLines(RevParse(ver[p]))]_vars

\* TrySelfUpdate is running its script or about to exec
InSwap == suPc \in {"scriptCheck", "scriptRm", "scriptMv", "scriptCp", "exec"}

\* some backup path holds the content c
BackedUp(c) == \E d \in DOMAIN backups : backups[d] = c

(***************************************************************************)
(* C16: at every point of the swap, also after a step failed or the script *)
(* was stopped, the old binary is whole at selfPath or at a backup path,   *)
(* or a complete new binary is at selfPath.  The old binary is the one the *)
(* process runs and, during a swap, the file that was hashed at selfPath.  *)
(***************************************************************************)
C16_NeverLosesBoth ==
    /\ \/ selfFile = running
       \/ BackedUp(running)
       \/ selfFile \in Binaries
    /\ InSwap
       => \/ Digest(selfFile) = selfHash
          \/ backups[selfHash] # "none" /\ Digest(backups[selfHash]) = selfHash
          \/ selfFile \in Binaries /\ copies = 1

\* the copy failed midway: selfPath holds a partial file and the old binary
\* is at the backup path
C16_Witness ==
    /\ suPc = "idle"
    /\ suResult = "exit status 1"
    /\ selfFile = "partial"
    /\ renames = 1
    /\ copies = 0
    /\ backups[Digest(running)] = running

(***************************************************************************)
(* C17: TrySelfUpdate returns nil and changes no file and replaces no      *)
(* process when the candidate is absent or has the digest of the file at   *)
(* selfPath; it changes no file before the script; when the digests differ *)
(* it runs the script, which renames at most once and copies at most once, *)
(* the copy after the rename, and the exec comes only after exactly one    *)
(* rename and one copy succeeded.                                          *)
(***************************************************************************)
C17_NoOpOrOneSwap ==
    /\ [][/\ \/ suPc = "checkNew" /\ newFile = "none"
             \/ suPc = "compare" /\ selfHash = newHash
          /\ suPc' # suPc
          => /\ suPc' = "idle"
             /\ suResult' = "nil"
             /\ UNCHANGED binVars
             /\ renames' = 0 /\ copies' = 0 /\ execs' = 0]_vars
    /\ [][(suPc \in {"idle", "checkNew", "hashSelf", "hashNew", "compare"})
          => UNCHANGED <<running, selfFile, backups>>]_vars
    /\ [][suPc = "compare" /\ selfHash # newHash /\ suPc' # suPc
          => suPc' = "scriptCheck"]_vars
    /\ [](renames <= 1 /\ copies <= 1 /\ execs <= 1)
    /\ [](copies = 1 => renames = 1)
    /\ [](suPc = "exec" \/ execs = 1 => renames = 1 /\ copies = 1)
    /\ [](suResult = "nil" /\ suPc = "idle"
          => renames = 0 /\ copies = 0 /\ execs = 0)

\* after a swap and a restart into the new binary, a call found the
\* candidate's digest equal to that of the file at selfPath and did nothing
C17_Witness ==
    /\ suPc = "idle"
    /\ suResult = "nil"
    /\ selfUpdate
    /\ running = "b2"
    /\ selfFile = "b2"
    /\ newFile = "b2"
    /\ selfHash = newHash
    /\ selfHash = Digest("b2")
    /\ backups[Digest("b1")] = "b1"

====
